---- MODULE Spec2Model ----
(***************************************************************************)
(* The builder pipeline of ipwned-localdb: the coordinator loop of          *)
(* src/bin/ipwned-builder.rs (main, schedule_download, check_db_state,      *)
(* handle_download_status, handle_result), the parser and filter-builder    *)
(* threads of src/filter_builder.rs (work_parse, work_build), the state     *)
(* database of src/statedb.rs, the line parser of src/parse.rs and the       *)
(* retrying download of src/downloader.rs.                                  *)
(*                                                                          *)
(* The async domain (coordinator and the fetch futures of buffer_unordered) *)
(* is one cooperative thread: a fetch future only advances while the        *)
(* coordinator sits in its select!.  The two worker threads run at any      *)
(* time until the process ends.                                             *)
(***************************************************************************)
EXTENDS Integers, Sequences, FiniteSets, TLC

(* ------------------------------- bounds -------------------------------- *)
\* capacity of each of the three mpsc channels (50 in the source, scaled)
CHANNEL_BUFF_SIZE == 1
\* args.parallel: width of buffer_unordered (50 by default, scaled)
Parallel == 2
\* args.max_count: entries the filter admits (1_500_000_000 by default, scaled)
MaxEntries == 2
\* number of distinct fingerprints the filter can tell apart
FpSpace == 3
\* time is counted in ticks of the wall clock: the wall clock at the startup of
\* the first run, the duration of args.max_age, and the last instant the wall
\* clock reaches during the first run
StartTime == 4
MaxAgeDuration == 1
MaxTime == 5
\* the longest pause between the end of a run and the start of the next
MaxGap == 1
\* the largest args.max_retries (10 by default, scaled)
MaxRetries == 3
\* a suffix has 2 * HalfSuffix + 1 hex digits (35 in the source, scaled)
HalfSuffix == 1

(* ------------------------------- values -------------------------------- *)
\* the runs of a sequence of runs: a first and a second
Runs == {1, 2}

\* 16^5 - 1, the largest shard id
MAX_COUNT == 1048575

\* the command lines: a range of two ids, and two ranges main rejects
ArgSets == { [start |-> 0, end |-> 1],
             [start |-> 1, end |-> 0],
             [start |-> 0, end |-> MAX_COUNT + 1] }

\* a command line whose range has two shards more than the three channels
\* hold together: one for each worker thread to hold
FlowArgs == [start |-> 0, end |-> 3 * CHANNEL_BUFF_SIZE + 1]

\* the range check of main
\* faulty variant of BadRange: the upper limit is not checked
BadRange_StartOnly(a) == a.start > a.end

BadRange(a) == a.start > a.end \/ a.end > MAX_COUNT

NoEtag == "none"

\* a line of a hash list body: a number k >= 1 stands for a well-formed line
\* "SUFFIX_k:COUNT"; 0 stands for text that parse_line rejects
BadLine == 0

\* the remote's 200 answers: body and ETag header
Responses == { [body |-> <<BadLine>>, etag |-> NoEtag],
               [body |-> <<1, 2>>, etag |-> "e1"],
               [body |-> <<2, BadLine>>, etag |-> NoEtag] }

\* the 20-byte hash of line k of shard prefix: the prefix and the suffix
Hash(prefix, k) == <<prefix, k>>

\* what the filter keeps of a hash
Fingerprint(h) == (h[1] * 2 + h[2]) % FpSpace

None == [kind |-> "none"]

NoRecord == [kind |-> "absent"]

Absent == [kind |-> "absent"]

\* CURRENT_TIMESTAMP has a resolution of one second: ticks in a second
TicksPerSecond == 3

\* CURRENT_TIMESTAMP at instant t, as check_db_state reads it back: the start
\* of the second t lies in
Stamp(t) == t - (t % TicksPerSecond)

\* the state database rows a first run may start from: no row, the latest
\* stamp not after the max_age instant of the first run (exactly max_age old
\* when that instant starts a second), and a stamp one second older
Rows == { NoRecord,
          [kind |-> "row", etag |-> "e0",
           last_update |-> Stamp(StartTime - MaxAgeDuration) - TicksPerSecond],
          [kind |-> "row", etag |-> "e0",
           last_update |-> Stamp(StartTime - MaxAgeDuration)] }

(* ----------------------------- the filter ------------------------------ *)
\* before FilterBuilder::new there is no filter
Unloaded == [kind |-> "unloaded"]

NewFilter(max_entries) == [cap |-> max_entries, fps |-> {}]

FilterContains(f, h) == Fingerprint(h) \in f.fps

\* Ok(true), Ok(false) or Err(CapacityExceeded), and the filter afterwards
FilterInsert(f, h) ==
    IF Fingerprint(h) \in f.fps
    THEN [res |-> "false", f |-> f]
    ELSE IF Cardinality(f.fps) >= f.cap
         THEN [res |-> "err", f |-> f]
         ELSE [res |-> "true", f |-> [f EXCEPT !.fps = @ \cup {Fingerprint(h)}]]

RECURSIVE SortedSeq(_)
SortedSeq(S) ==
    IF S = {} THEN <<>>
    ELSE LET m == CHOOSE x \in S : \A y \in S : x <= y
         IN <<m>> \o SortedSeq(S \ {m})

\* ciborium::into_writer / from_reader of the filter
Serialize(f) == [kind |-> "cbor", cap |-> f.cap, data |-> SortedSeq(f.fps)]

Deserialize(c) == [cap |-> c.cap, fps |-> {c.data[i] : i \in 1 .. Len(c.data)}]

\* the filter files a run may start from
PreFiles == { Absent, Serialize([cap |-> MaxEntries, fps |-> 0 .. (MaxEntries - 1)]) }

open_filter_maybe(content) ==
    IF content = Absent THEN NewFilter(MaxEntries) ELSE Deserialize(content)

(* ----------------------------- the parser ------------------------------ *)
\* separated_list0(line_ending, parse_line): the well-formed lines up to the
\* first one parse_line rejects; it accepts zero lines, so it never fails
RECURSIVE ValidPrefixLen(_, _)
ValidPrefixLen(body, n) ==
    IF n < Len(body) /\ body[n + 1] # BadLine
    THEN ValidPrefixLen(body, n + 1)
    ELSE n

parse_file(prefix, body) ==
    LET n == ValidPrefixLen(body, 0)
    IN [ok |-> TRUE,
        rem |-> SubSeq(body, n + 1, Len(body)),
        hashes |-> [k \in 1 .. n |-> Hash(prefix, body[k])]]

(* --------------------------- parse_file, by bytes ---------------------- *)
SuffixLen == 2 * HalfSuffix + 1

\* AsChar::is_hex_digit, and the value from_str_radix(_, 16) and
\* hex_decode_unchecked give a digit
HexVal == [c \in {"0", "1", "2", "3", "4", "5", "6", "7", "8", "9",
                  "a", "b", "c", "d", "e", "f", "A", "B", "C", "D", "E", "F"} |->
             CASE c = "0" -> 0 [] c = "1" -> 1 [] c = "2" -> 2 [] c = "3" -> 3
               [] c = "4" -> 4 [] c = "5" -> 5 [] c = "6" -> 6 [] c = "7" -> 7
               [] c = "8" -> 8 [] c = "9" -> 9
               [] c \in {"a", "A"} -> 10 [] c \in {"b", "B"} -> 11
               [] c \in {"c", "C"} -> 12 [] c \in {"d", "D"} -> 13
               [] c \in {"e", "E"} -> 14 [] c \in {"f", "F"} -> 15]

HexChars == DOMAIN HexVal

DecChars == {"0", "1", "2", "3", "4", "5", "6", "7", "8", "9"}

\* parse_line: SuffixLen hex digits, ":", one or more decimal digits; the
\* hex digits, or nothing when the line does not match
parse_line(line) ==
    IF /\ Len(line) >= SuffixLen + 2
       /\ \A k \in 1 .. SuffixLen : line[k] \in HexChars
       /\ line[SuffixLen + 1] = ":"
       /\ line[SuffixLen + 2] \in DecChars
    THEN [ok |-> TRUE, hex |-> SubSeq(line, 1, SuffixLen)]
    ELSE [ok |-> FALSE]

\* a | b on u8
RECURSIVE BitOr(_, _)
BitOr(a, b) ==
    IF a = 0 THEN b
    ELSE IF b = 0 THEN a
    ELSE (IF a % 2 = 1 \/ b % 2 = 1 THEN 1 ELSE 0) + 2 * BitOr(a \div 2, b \div 2)

\* put_u16((prefix >> 4) as u16): two bytes, big-endian
BaseHigh(prefix) ==
    LET w == (prefix \div 16) % 65536 IN <<w \div 256, w % 256>>

\* faulty variant of BaseLow: the low byte of prefix, not shifted
BaseLow_Unshifted(prefix) == prefix % 256

\* put_u8((prefix as u8) << 4)
BaseLow(prefix) == ((prefix % 256) * 16) % 256

\* hex_decode_unchecked: a byte of every two digits
hex_decode(hex) ==
    [j \in 1 .. (Len(hex) \div 2) |-> 16 * HexVal[hex[2 * j - 1]] + HexVal[hex[2 * j]]]

\* the body of the for loop of parse_file: the hash of one suffix
hash_of(prefix, hex) ==
    LET base_hash == BaseHigh(prefix) \o <<BaseLow(prefix)>>
        byte2 == BitOr(base_hash[3], HexVal[hex[1]])
    IN <<base_hash[1], base_hash[2], byte2>> \o hex_decode(SubSeq(hex, 2, Len(hex)))

(* ---------------------------- download_retry --------------------------- *)
\* Option<u16>
NoStatus == [kind |-> "none"]

Some(v) == [kind |-> "some", v |-> v]

unwrap_or(o, d) == IF o.kind = "some" THEN o.v ELSE d

\* Result<DownloadResult, DownloadError>
Ok(r) == [ok |-> TRUE, val |-> r]

Err(code) == [ok |-> FALSE, err |-> [status_code |-> code]]

\* what download_remote_hashlist returns: a 200 with its body and ETag, the
\* status of another answer, or no status when the connection failed
Answers == {Ok(r) : r \in Responses} \cup {Err(Some(304)), Err(Some(404)), Err(Some(500)), Err(NoStatus)}

\* the first sleep of download_retry, in milliseconds (timeout = 0.5 s)
InitialTimeout == 500

\* faulty variant of StopsRetry: a 304 is retried like any other error
StopsRetry_OkOnly(res) == res.ok

\* download_retry returns at once on Ok and on status 304
StopsRetry(res) == res.ok \/ unwrap_or(res.err.status_code, 0) = 304

\* faulty variant of Backoff: the sleep stays the same
Backoff_Constant(timeout) == timeout

\* timeout *= 2.
Backoff(timeout) == timeout * 2

\* the map_err of schedule_download
map_err(err) ==
    IF unwrap_or(err.status_code, 0) = 304 THEN "NotOutdated" ELSE "HTTPError"

(* --------------------------- check_db_state ---------------------------- *)
\* faulty variant of fetch: the row is never found
fetch_NoRow(db, id) == [ok |-> FALSE]

\* StateDatabase::fetch: query_row fails when no row matches
fetch(db, id) ==
    IF db[id] = NoRecord THEN [ok |-> FALSE] ELSE [ok |-> TRUE, row |-> db[id]]

\* faulty variant of check_db_state: a record exactly max_age old counts as outdated
check_db_state_Inclusive(cutoff, state) ==
    IF state.ok
    THEN [need_update |-> cutoff >= state.row.last_update, etag |-> state.row.etag]
    ELSE [need_update |-> TRUE, etag |-> NoEtag]

\* need_update and the etag to send
check_db_state(cutoff, state) ==
    IF state.ok
    THEN [need_update |-> cutoff > state.row.last_update, etag |-> state.row.etag]
    ELSE [need_update |-> TRUE, etag |-> NoEtag]

(* ------------------------------- state --------------------------------- *)
VARIABLES
    mainPc,       \* where main is: start, open, probe, select, sendDone, intSend,
                  \* intDrain, closing, exited
    exit_code,    \* exit_code of main
    status,       \* the Status counters
    taskSt,       \* per id, the schedule_download future: new, fetching, sending, done
    request,      \* per id, the validator of the request issued ("noreq": none issued)
    taskHold,     \* per id, the HashList its future waits to send
    outcome,      \* per id, what its future returned ("pending": nothing yet)
    inQ,          \* channel in_tx -> in_rx (Option<HashList>)
    midQ,         \* channel tx_mid -> rx_mid (Option<ParseResult>)
    outQ,         \* channel out_tx -> out_rx (Option<FilterResult>)
    inClosed,     \* in_rx was closed by the parser thread
    midClosed,    \* rx_mid was closed by the builder thread
    parserPc,     \* recv, send, sendNone, done
    parserHold,   \* the ParseResult work_parse is sending
    builderPc,    \* recv, send, create, write, rename, sendNone, done
    builderHold,  \* the FilterResult work_build is sending
    changed,      \* changed of work_build
    filter,       \* the in-memory filter
    file,         \* content of <filter_path>
    tmpFile,      \* content of <filter_path>.new
    statedb,      \* table document: id -> row
    clock,        \* the wall clock (CURRENT_TIMESTAMP of the state database)
    hist,         \* what happened so far (history only, never read by the program)
    args,         \* args.start and args.end
    now,          \* the wall clock at startup (now of main)
    run,          \* number of the run in a sequence of runs
    retry,        \* a call of download_retry, followed on its own
    conv          \* a call of parse_file on one line, followed on its own

vars == <<mainPc, exit_code, status, taskSt, request, taskHold, outcome, inQ, midQ,
          outQ, inClosed, midClosed, parserPc, parserHold, builderPc, builderHold,
          changed, filter, file, tmpFile, statedb, clock, hist, args, now, run,
          retry, conv>>

schedVars == <<taskSt, request, taskHold, outcome>>
parserVars == <<parserPc, parserHold>>
builderVars == <<builderPc, builderHold, changed, filter>>
diskVars == <<file, tmpFile>>
dbVars == <<statedb, clock>>
runVars == <<args, now, run>>
fnVars == <<retry, conv>>
pipeVars == <<mainPc, exit_code, status, schedVars, inQ, midQ, outQ, inClosed,
              midClosed, parserVars, builderVars, diskVars, dbVars, hist, runVars>>

\* the shard ids of the run, args.start ..= args.end; of a range that ends
\* beyond MAX_COUNT the first two ids stand for the whole
Ids == args.start .. (IF args.end > MAX_COUNT THEN args.start + 1 ELSE args.end)

\* the instant before which a record is outdated (max_age of main)
max_age == now - MaxAgeDuration

\* no call is being followed
Idle == [pc |-> "idle"]

StatusNew(total) ==
    [total |-> total, skipped |-> 0, downloaded |-> 0, downloaded_bytes |-> 0,
     hashes |-> 0, hashes_new |-> 0, error |-> 0, processed |-> 0]

\* what a run knows of the run before it: none
NoPrev == [ran |-> FALSE, clean |-> FALSE, stamped |-> {}, stampedAt |-> <<>>]

Inc(f, i) == [f EXCEPT ![i] = @ + 1]

HistNew(f, db, prev) ==
    [preFile |-> f,          \* <filter_path> before the run
     preDb |-> db,           \* the state database before the run
     enqueued |-> {},        \* ids whose HashList was enqueued on inQ
     unparseable |-> {},     \* of those, the ids whose body starts with a rejected line
     enqAtInt |-> {},        \* enqueued, at the moment the interrupt was observed
     interrupted |-> FALSE,  \* main took the ctrl_c branch
     fed |-> {},             \* hashes of the ParseResults work_build received
     fedIds |-> {},          \* ids of the ParseResults work_build received
     inserted |-> {},        \* hashes filter.insert accepted (Ok)
     touched |-> {},         \* ids with at least one accepted insert
     built |-> {},           \* ids whose insert loop finished without Err
     builtHashes |-> {},     \* hashes of those
     newly |-> 0,            \* inserts that returned Ok(true)
     builtNewly |-> 0,       \* of those, the ones of shards in built
     saturated |-> FALSE,    \* an insert returned Err
     persists |-> 0,         \* persist attempts (File::create calls)
     renamed |-> FALSE,      \* the rename succeeded
     fileWrites |-> 0,       \* times the content of <filter_path> was set
     issued |-> {},          \* ids state_db.update was called for
     sentinels |-> 0,        \* close sentinels main put on inQ
     terminal |-> 0,         \* terminal sentinels work_build put on outQ
     sentinelSeen |-> FALSE, \* work_parse received a sentinel
     forwarded |-> 0,        \* sentinels work_parse put on midQ
     got200 |-> [i \in Ids |-> 0],      \* per id, downloads that returned Ok
     parses |-> [i \in Ids |-> 0],      \* per id, calls of parse_file
     insertRuns |-> [i \in Ids |-> 0],  \* per id, runs of the insert loop
     updates |-> [i \in Ids |-> 0],     \* per id, calls of state_db.update
     stamped |-> {},         \* ids whose state_db.update succeeded
     stampedAt |-> [i \in Ids |-> 0],        \* per id, the instant of that update
     stampEtag |-> [i \in Ids |-> NoEtag],   \* per id, the etag it was given
     opened |-> FALSE,       \* StateDatabase::open succeeded
     closed |-> FALSE,       \* state_db.close() was called
     dbFault |-> FALSE,      \* the state database failed to open, to be writable or to close
     prev |-> prev]          \* the run before this one

\* the process as main finds it, given its command line
InitRun ==
    /\ mainPc = "start"
    /\ now = StartTime
    /\ run = 1
    /\ exit_code = 0
    /\ status = StatusNew(Cardinality(Ids))
    /\ taskSt = [i \in Ids |-> "new"]
    /\ request = [i \in Ids |-> "noreq"]
    /\ taskHold = [i \in Ids |-> None]
    /\ outcome = [i \in Ids |-> "pending"]
    /\ inQ = <<>> /\ midQ = <<>> /\ outQ = <<>>
    /\ inClosed = FALSE /\ midClosed = FALSE
    /\ parserPc = "recv" /\ parserHold = None
    /\ builderPc = "recv" /\ builderHold = None
    /\ changed = FALSE
    /\ file \in PreFiles
    /\ filter = Unloaded
    /\ tmpFile = Absent
    /\ statedb \in [Ids -> Rows]
    /\ clock = StartTime
    /\ hist = HistNew(file, statedb, NoPrev)

InitPipeline == args \in ArgSets /\ InitRun

Init == InitPipeline /\ retry = Idle /\ conv = Idle

\* where main is before its loop
StartupPcs == {"start", "open", "probe"}

\* the worker threads run from FilterBuilder::new until the process ends
Alive == mainPc \notin StartupPcs \cup {"exited"}

\* in_tx and out_rx live in the block main leaves before closing the database
MainLeft == mainPc \in {"closing", "exited"}

(* ------------------------------- startup ------------------------------- *)
\* main: the range check
RangeCheck ==
    /\ mainPc = "start"
    /\ IF BadRange(args)
       THEN mainPc' = "exited" /\ exit_code' = 255
       ELSE mainPc' = "open" /\ exit_code' = exit_code
    /\ UNCHANGED <<runVars, fnVars, status, schedVars, inQ, midQ, outQ, inClosed,
                   midClosed, parserVars, builderVars, diskVars, dbVars, hist>>

\* main: StateDatabase::open succeeds, or fails and main returns 1
OpenDb ==
    /\ mainPc = "open"
    /\ \/ /\ mainPc' = "probe" /\ exit_code' = exit_code
          /\ hist' = [hist EXCEPT !.opened = TRUE]
       \/ /\ mainPc' = "exited" /\ exit_code' = 1
          /\ hist' = [hist EXCEPT !.dbFault = TRUE]
    /\ UNCHANGED <<runVars, fnVars, status, schedVars, inQ, midQ, outQ, inClosed,
                   midClosed, parserVars, builderVars, diskVars, dbVars>>

\* main: is_readonly is true and main returns 1
ProbeReadOnly ==
    /\ mainPc = "probe"
    /\ mainPc' = "exited" /\ exit_code' = 1
    /\ hist' = [hist EXCEPT !.dbFault = TRUE]
    /\ UNCHANGED <<runVars, fnVars, status, schedVars, inQ, midQ, outQ, inClosed,
                   midClosed, parserVars, builderVars, diskVars, dbVars>>

\* main: the database is writable; FilterBuilder::new loads or creates the
\* filter and starts the two worker threads, and main enters its loop
StartPipeline ==
    /\ mainPc = "probe"
    /\ mainPc' = "select"
    /\ filter' = open_filter_maybe(file)
    /\ UNCHANGED <<runVars, fnVars, exit_code, status, schedVars, inQ, midQ, outQ,
                   inClosed, midClosed, parserVars, builderPc, builderHold, changed,
                   diskVars, dbVars, hist>>

(* ------------------------- handle_download_status ---------------------- *)
\* faulty variant of Counted: an outcome other than Ok, Skipped and NotOutdated
\* is not counted as an error
Counted_ErrorDropped(st, res, size) ==
    LET a == [st EXCEPT !.processed = @ + 1]
    IN CASE res = "Downloaded" ->
              [a EXCEPT !.downloaded = @ + 1, !.downloaded_bytes = @ + size]
         [] res \in {"Skipped", "NotOutdated"} -> [a EXCEPT !.skipped = @ + 1]
         [] OTHER -> a

\* the counters after one scheduler outcome
Counted(st, res, size) ==
    LET a == [st EXCEPT !.processed = @ + 1]
    IN CASE res = "Downloaded" ->
              [a EXCEPT !.downloaded = @ + 1, !.downloaded_bytes = @ + size]
         [] res \in {"Skipped", "NotOutdated"} -> [a EXCEPT !.skipped = @ + 1]
         [] OTHER -> [a EXCEPT !.error = @ + 1]

\* a future of the stream returns res: main counts it and, once every id is
\* processed, goes on to send the close sentinel
handle_download_status(i, res, size) ==
    /\ outcome' = [outcome EXCEPT ![i] = res]
    /\ taskSt' = [taskSt EXCEPT ![i] = "done"]
    /\ status' = Counted(status, res, size)
    /\ mainPc' = IF status'.processed = status'.total THEN "sendDone" ELSE "select"

(* --------------------------- schedule_download ------------------------- *)
InFlight == {j \in Ids : taskSt[j] \in {"fetching", "sending"}}

\* buffer_unordered starts the futures in id order, at most Parallel at once;
\* the future reads the state database and returns Skipped or issues the GET
StartSkipped(i) ==
    /\ mainPc = "select" /\ taskSt[i] = "new"
    /\ \A j \in Ids : j < i => taskSt[j] # "new"
    /\ Cardinality(InFlight) < Parallel
    /\ ~check_db_state(max_age, fetch(statedb, i)).need_update
    /\ handle_download_status(i, "Skipped", 0)
    /\ UNCHANGED <<runVars, fnVars, exit_code, request, taskHold, inQ, midQ, outQ,
                   inClosed, midClosed,
                   parserVars, builderVars, diskVars, dbVars, hist>>

StartFetch(i) ==
    /\ mainPc = "select" /\ taskSt[i] = "new"
    /\ \A j \in Ids : j < i => taskSt[j] # "new"
    /\ Cardinality(InFlight) < Parallel
    /\ LET c == check_db_state(max_age, fetch(statedb, i))
       IN /\ c.need_update
          /\ request' = [request EXCEPT ![i] = c.etag]
    /\ taskSt' = [taskSt EXCEPT ![i] = "fetching"]
    /\ UNCHANGED <<runVars, fnVars, mainPc, exit_code, status, taskHold, outcome, inQ,
                   midQ, outQ,
                   inClosed, midClosed, parserVars, builderVars, diskVars, dbVars, hist>>

\* download_retry returned Ok: the future holds the HashList it will send
Respond200(i) ==
    /\ mainPc = "select" /\ taskSt[i] = "fetching"
    /\ \E r \in Responses :
          taskHold' = [taskHold EXCEPT ![i] =
                          [kind |-> "some", id |-> i, data |-> r.body, etag |-> r.etag]]
    /\ taskSt' = [taskSt EXCEPT ![i] = "sending"]
    /\ hist' = [hist EXCEPT !.got200 = Inc(@, i)]
    /\ UNCHANGED <<runVars, fnVars, mainPc, exit_code, status, request, outcome, inQ,
                   midQ, outQ, inClosed, midClosed, parserVars, builderVars, diskVars,
                   dbVars>>

\* faulty variant of Respond304: a 304 refreshes the shard's row
Respond304_Refresh(i) ==
    /\ mainPc = "select" /\ taskSt[i] = "fetching"
    /\ request[i] # NoEtag
    /\ handle_download_status(i, "NotOutdated", 0)
    /\ statedb' = [statedb EXCEPT ![i] =
                      [kind |-> "row", etag |-> request[i], last_update |-> Stamp(clock)]]
    /\ UNCHANGED <<runVars, fnVars, exit_code, request, taskHold, inQ, midQ, outQ,
                   inClosed, midClosed,
                   parserVars, builderVars, diskVars, clock, hist>>

\* download_retry returned status 304 (the remote answers so to a validator)
Respond304(i) ==
    /\ mainPc = "select" /\ taskSt[i] = "fetching"
    /\ request[i] # NoEtag
    /\ handle_download_status(i, map_err(Err(Some(304)).err), 0)
    /\ UNCHANGED <<runVars, fnVars, exit_code, request, taskHold, inQ, midQ, outQ,
                   inClosed, midClosed,
                   parserVars, builderVars, diskVars, dbVars, hist>>

\* download_retry returned another error
RespondError(i) ==
    /\ mainPc = "select" /\ taskSt[i] = "fetching"
    /\ \E res \in {a \in Answers : ~StopsRetry(a)} :
          handle_download_status(i, map_err(res.err), 0)
    /\ UNCHANGED <<runVars, fnVars, exit_code, request, taskHold, inQ, midQ, outQ,
                   inClosed, midClosed,
                   parserVars, builderVars, diskVars, dbVars, hist>>

\* faulty variant of SendHashList: the channel takes a HashList whatever it holds
SendHashList_Unbounded(i) ==
    /\ mainPc = "select" /\ taskSt[i] = "sending"
    /\ taskHold' = [taskHold EXCEPT ![i] = None]
    /\ IF inClosed
       THEN /\ handle_download_status(i, "InternalError", 0)
            /\ UNCHANGED <<inQ, hist>>
       ELSE /\ inQ' = Append(inQ, taskHold[i])
            /\ hist' = [hist EXCEPT
                          !.enqueued = @ \cup {i},
                          !.unparseable = @ \cup (IF taskHold[i].data[1] = BadLine
                                                  THEN {i} ELSE {})]
            /\ handle_download_status(i, "Downloaded", Len(taskHold[i].data))
    /\ UNCHANGED <<runVars, fnVars, exit_code, request, midQ, outQ, inClosed, midClosed,
                   parserVars, builderVars, diskVars, dbVars>>

\* hash_list_chan.send(Some(HashList)): the HashList is enqueued and the future
\* returns Ok(data_len), or the parser closed in_rx and it returns InternalError
SendHashList(i) ==
    /\ mainPc = "select" /\ taskSt[i] = "sending"
    /\ inClosed \/ Len(inQ) < CHANNEL_BUFF_SIZE
    /\ taskHold' = [taskHold EXCEPT ![i] = None]
    /\ IF inClosed
       THEN /\ handle_download_status(i, "InternalError", 0)
            /\ UNCHANGED <<inQ, hist>>
       ELSE /\ inQ' = Append(inQ, taskHold[i])
            /\ hist' = [hist EXCEPT
                          !.enqueued = @ \cup {i},
                          !.unparseable = @ \cup (IF taskHold[i].data[1] = BadLine
                                                  THEN {i} ELSE {})]
            /\ handle_download_status(i, "Downloaded", Len(taskHold[i].data))
    /\ UNCHANGED <<runVars, fnVars, exit_code, request, midQ, outQ, inClosed, midClosed,
                   parserVars, builderVars, diskVars, dbVars>>

(* ------------------------------ handle_result -------------------------- *)
\* StateDatabase::update: the upsert, stamped with the database's clock; the
\* statement may fail, which leaves the table as it was
\* faulty variant of update: INSERT without the ON CONFLICT clause's update; a
\* row already there is kept
update_KeepRow(db, id, etag, t) ==
    IF db[id] = NoRecord
    THEN [db EXCEPT ![id] = [kind |-> "row", etag |-> etag, last_update |-> Stamp(t)]]
    ELSE db

\* the table has one row per id (INTEGER PRIMARY KEY): the row is inserted, or
\* on conflict its etag and last_update are set
update(db, id, etag, t) ==
    IF db[id] = NoRecord
    THEN [db EXCEPT ![id] = [kind |-> "row", etag |-> etag, last_update |-> Stamp(t)]]
    ELSE [db EXCEPT ![id] = [@ EXCEPT !.etag = etag, !.last_update = Stamp(t)]]

\* the last instant the wall clock reaches during the run
RunDeadline == now + (MaxTime - StartTime)

\* main counts a FilterResult and updates the state database
handle_result(x) ==
    /\ status' = [status EXCEPT !.hashes = @ + x.total, !.hashes_new = @ + x.added]
    /\ \E t \in clock .. RunDeadline :
          /\ clock' = t
          /\ \/ /\ statedb' = update(statedb, x.id, x.etag, t)
                /\ hist' = [hist EXCEPT !.issued = @ \cup {x.id},
                                        !.updates = Inc(@, x.id),
                                        !.stamped = @ \cup {x.id},
                                        !.stampedAt = [@ EXCEPT ![x.id] = t],
                                        !.stampEtag = [@ EXCEPT ![x.id] = x.etag]]
             \/ /\ statedb' = statedb
                /\ hist' = [hist EXCEPT !.issued = @ \cup {x.id},
                                        !.updates = Inc(@, x.id)]

(* --------------------------------- main -------------------------------- *)
\* select!: the out_rx.recv() branch
RecvResult ==
    /\ mainPc = "select" /\ outQ # <<>> /\ Head(outQ) # None
    /\ outQ' = Tail(outQ)
    /\ handle_result(Head(outQ))
    /\ UNCHANGED <<runVars, fnVars, mainPc, exit_code, schedVars, inQ, midQ, inClosed,
                   midClosed,
                   parserVars, builderVars, diskVars>>

\* select!: out_rx.recv() yields the builder's sentinel: break
RecvSentinel ==
    /\ mainPc = "select" /\ outQ # <<>> /\ Head(outQ) = None
    /\ outQ' = Tail(outQ)
    /\ mainPc' = "closing"
    /\ UNCHANGED <<runVars, fnVars, exit_code, status, schedVars, inQ, midQ, inClosed,
                   midClosed,
                   parserVars, builderVars, diskVars, dbVars, hist>>

\* handle_download_status: done_channel.send(None) completes
SendDone ==
    /\ mainPc = "sendDone"
    /\ ~inClosed /\ Len(inQ) < CHANNEL_BUFF_SIZE
    /\ inQ' = Append(inQ, None)
    /\ mainPc' = "select"
    /\ hist' = [hist EXCEPT !.sentinels = @ + 1]
    /\ UNCHANGED <<runVars, fnVars, exit_code, status, schedVars, midQ, outQ, inClosed,
                   midClosed,
                   parserVars, builderVars, diskVars, dbVars>>

\* handle_download_status: done_channel.send(None) fails, it returns false
SendDoneFailed ==
    /\ mainPc = "sendDone"
    /\ inClosed
    /\ exit_code' = 2
    /\ mainPc' = "closing"
    /\ UNCHANGED <<runVars, fnVars, status, schedVars, inQ, midQ, outQ, inClosed,
                   midClosed,
                   parserVars, builderVars, diskVars, dbVars, hist>>

\* select!: the ctrl_c branch: do_exit = true, break
Interrupt ==
    /\ mainPc = "select"
    /\ mainPc' = "intSend"
    /\ hist' = [hist EXCEPT !.interrupted = TRUE, !.enqAtInt = hist.enqueued]
    /\ UNCHANGED <<runVars, fnVars, exit_code, status, schedVars, inQ, midQ, outQ,
                   inClosed, midClosed,
                   parserVars, builderVars, diskVars, dbVars>>

\* if do_exit: in_tx.send(None) completes
IntSend ==
    /\ mainPc = "intSend"
    /\ ~inClosed /\ Len(inQ) < CHANNEL_BUFF_SIZE
    /\ inQ' = Append(inQ, None)
    /\ mainPc' = "intDrain"
    /\ hist' = [hist EXCEPT !.sentinels = @ + 1]
    /\ UNCHANGED <<runVars, fnVars, exit_code, status, schedVars, midQ, outQ, inClosed,
                   midClosed,
                   parserVars, builderVars, diskVars, dbVars>>

\* if do_exit: in_tx.send(None) fails, the drain loop is skipped
IntSendFailed ==
    /\ mainPc = "intSend"
    /\ inClosed
    /\ mainPc' = "closing"
    /\ UNCHANGED <<runVars, fnVars, exit_code, status, schedVars, inQ, midQ, outQ,
                   inClosed, midClosed,
                   parserVars, builderVars, diskVars, dbVars, hist>>

\* the drain loop after ctrl+c
IntDrainResult ==
    /\ mainPc = "intDrain" /\ outQ # <<>> /\ Head(outQ) # None
    /\ outQ' = Tail(outQ)
    /\ handle_result(Head(outQ))
    /\ UNCHANGED <<runVars, fnVars, mainPc, exit_code, schedVars, inQ, midQ, inClosed,
                   midClosed,
                   parserVars, builderVars, diskVars>>

IntDrainSentinel ==
    /\ mainPc = "intDrain" /\ outQ # <<>> /\ Head(outQ) = None
    /\ outQ' = Tail(outQ)
    /\ mainPc' = "closing"
    /\ UNCHANGED <<runVars, fnVars, exit_code, status, schedVars, inQ, midQ, inClosed,
                   midClosed,
                   parserVars, builderVars, diskVars, dbVars, hist>>

\* state_db.close() and the return from main, which ends the process
CloseDb ==
    /\ mainPc = "closing"
    /\ mainPc' = "exited"
    /\ \/ /\ exit_code' = exit_code
          /\ hist' = [hist EXCEPT !.closed = TRUE]
       \/ /\ exit_code' = 3
          /\ hist' = [hist EXCEPT !.closed = TRUE, !.dbFault = TRUE]
    /\ UNCHANGED <<runVars, fnVars, status, schedVars, inQ, midQ, outQ, inClosed,
                   midClosed, parserVars, builderVars, diskVars, dbVars>>

(* ------------------------------ work_parse ----------------------------- *)
\* blocking_recv yields a HashList: parse it
ParserRecv ==
    /\ Alive /\ parserPc = "recv" /\ inQ # <<>> /\ Head(inQ) # None
    /\ inQ' = Tail(inQ)
    /\ LET list == Head(inQ)
           res == parse_file(list.id, list.data)
       IN /\ IF ~res.ok
             THEN UNCHANGED parserVars
             ELSE /\ parserHold' = [kind |-> "some", id |-> list.id,
                                    hashes |-> res.hashes, etag |-> list.etag]
                  /\ parserPc' = "send"
          /\ hist' = [hist EXCEPT !.parses = Inc(@, list.id)]
    /\ UNCHANGED <<runVars, fnVars, mainPc, exit_code, status, schedVars, midQ, outQ,
                   inClosed, midClosed, builderVars, diskVars, dbVars>>

\* blocking_recv yields the sentinel, or the channel is empty with in_tx dropped
ParserRecvEnd ==
    /\ Alive /\ parserPc = "recv"
    /\ \/ /\ inQ # <<>> /\ Head(inQ) = None
          /\ inQ' = Tail(inQ)
          /\ hist' = [hist EXCEPT !.sentinelSeen = TRUE]
       \/ /\ inQ = <<>> /\ MainLeft
          /\ UNCHANGED <<inQ, hist>>
    /\ parserPc' = "sendNone"
    /\ UNCHANGED <<runVars, fnVars, mainPc, exit_code, status, schedVars, midQ, outQ,
                   inClosed,
                   midClosed, parserHold, builderVars, diskVars, dbVars>>

\* faulty variant of ParserSend: the parser keeps the ParseResult and sends it again
ParserSend_Dup ==
    /\ Alive /\ parserPc = "send"
    /\ ~midClosed /\ Len(midQ) < CHANNEL_BUFF_SIZE
    /\ midQ' = Append(midQ, parserHold)
    /\ UNCHANGED <<runVars, fnVars, mainPc, exit_code, status, schedVars, inQ, outQ,
                   inClosed, midClosed, parserVars, builderVars, diskVars, dbVars, hist>>

\* out_tx.blocking_send(Some(res)) completes
ParserSend ==
    /\ Alive /\ parserPc = "send"
    /\ ~midClosed /\ Len(midQ) < CHANNEL_BUFF_SIZE
    /\ midQ' = Append(midQ, parserHold)
    /\ parserHold' = None
    /\ parserPc' = "recv"
    /\ UNCHANGED <<runVars, fnVars, mainPc, exit_code, status, schedVars, inQ, outQ,
                   inClosed,
                   midClosed, builderVars, diskVars, dbVars, hist>>

\* out_tx.blocking_send(Some(res)) fails: close in_rx and return
ParserSendFailed ==
    /\ Alive /\ parserPc = "send"
    /\ midClosed
    /\ parserHold' = None
    /\ parserPc' = "done"
    /\ inClosed' = TRUE
    /\ UNCHANGED <<runVars, fnVars, mainPc, exit_code, status, schedVars, inQ, midQ, outQ,
                   midClosed, builderVars, diskVars, dbVars, hist>>

\* faulty variant of ParserSendNone: work_parse goes back to its loop
ParserSendNone_Resume ==
    /\ Alive /\ parserPc = "sendNone"
    /\ \/ /\ ~midClosed /\ Len(midQ) < CHANNEL_BUFF_SIZE
          /\ midQ' = Append(midQ, None)
          /\ hist' = [hist EXCEPT !.forwarded = @ + 1]
       \/ /\ midClosed
          /\ UNCHANGED <<midQ, hist>>
    /\ parserPc' = "recv"
    /\ UNCHANGED <<runVars, fnVars, mainPc, exit_code, status, schedVars, inQ, outQ,
                   inClosed, midClosed,
                   parserHold, builderVars, diskVars, dbVars>>

\* the exit of work_parse: forward the sentinel (a failure is ignored), close in_rx
ParserSendNone ==
    /\ Alive /\ parserPc = "sendNone"
    /\ \/ /\ ~midClosed /\ Len(midQ) < CHANNEL_BUFF_SIZE
          /\ midQ' = Append(midQ, None)
          /\ hist' = [hist EXCEPT !.forwarded = @ + 1]
       \/ /\ midClosed
          /\ UNCHANGED <<midQ, hist>>
    /\ parserPc' = "done"
    /\ inClosed' = TRUE
    /\ UNCHANGED <<runVars, fnVars, mainPc, exit_code, status, schedVars, inQ, outQ,
                   midClosed,
                   parserHold, builderVars, diskVars, dbVars>>

(* ------------------------------ work_build ----------------------------- *)
\* the for loop over parsed.hashes from hash number i on: the filter after it,
\* the count of Ok(true), whether an insert returned Err, the hashes accepted
RECURSIVE InsertLoop(_, _, _, _, _)
InsertLoop(f, hashes, i, added, done) ==
    IF i > Len(hashes)
    THEN [f |-> f, added |-> added, err |-> FALSE, done |-> done]
    ELSE LET r == FilterInsert(f, hashes[i])
         IN IF r.res = "err"
            THEN [f |-> f, added |-> added, err |-> TRUE, done |-> done]
            ELSE InsertLoop(r.f, hashes, i + 1,
                            IF r.res = "true" THEN added + 1 ELSE added,
                            done \cup {hashes[i]})

\* faulty variant of Changed: a shard with a single new hash does not count
Changed_MoreThanOne(was, added) == was \/ added > 1

\* faulty variant of Changed: any completed shard counts
Changed_AnyShard(was, added) == was \/ added >= 0

\* changed after a shard with `added` new hashes
Changed(was, added) == was \/ added > 0

\* faulty variant of AfterLoop: the filter is written whether changed or not
AfterLoop_Always(ch) == "create"

\* where work_build goes when it leaves 'mainloop
AfterLoop(ch) == IF ch THEN "create" ELSE "sendNone"

SeqRange(s) == {s[k] : k \in 1 .. Len(s)}

\* blocking_recv yields a ParseResult: insert its hashes
BuilderRecv ==
    /\ Alive /\ builderPc = "recv" /\ midQ # <<>> /\ Head(midQ) # None
    /\ midQ' = Tail(midQ)
    /\ LET parsed == Head(midQ)
           r == InsertLoop(filter, parsed.hashes, 1, 0, {})
           h == [hist EXCEPT !.fed = @ \cup SeqRange(parsed.hashes),
                             !.fedIds = @ \cup {parsed.id},
                             !.inserted = @ \cup r.done,
                             !.touched = @ \cup (IF r.done = {} THEN {} ELSE {parsed.id}),
                             !.newly = @ + r.added,
                             !.saturated = @ \/ r.err,
                             !.insertRuns = Inc(@, parsed.id)]
       IN /\ filter' = r.f
          /\ IF r.err
             THEN /\ builderPc' = AfterLoop(changed)
                  /\ UNCHANGED <<builderHold, changed>>
                  /\ hist' = h
             ELSE /\ builderHold' = [kind |-> "some", id |-> parsed.id,
                                     total |-> Len(parsed.hashes),
                                     added |-> r.added, etag |-> parsed.etag]
                  /\ changed' = Changed(changed, r.added)
                  /\ builderPc' = "send"
                  /\ hist' = [h EXCEPT !.built = @ \cup {parsed.id},
                                       !.builtHashes = @ \cup SeqRange(parsed.hashes),
                                       !.builtNewly = @ + r.added]
    /\ UNCHANGED <<runVars, fnVars, mainPc, exit_code, status, schedVars, inQ, outQ,
                   inClosed,
                   midClosed, parserVars, diskVars, dbVars>>

\* blocking_recv yields the sentinel: leave the loop
BuilderRecvEnd ==
    /\ Alive /\ builderPc = "recv" /\ midQ # <<>> /\ Head(midQ) = None
    /\ midQ' = Tail(midQ)
    /\ builderPc' = AfterLoop(changed)
    /\ UNCHANGED <<runVars, fnVars, mainPc, exit_code, status, schedVars, inQ, outQ,
                   inClosed,
                   midClosed, parserVars, builderHold, changed, filter, diskVars,
                   dbVars, hist>>

\* out_tx.blocking_send(Some(res)) completes
BuilderSend ==
    /\ Alive /\ builderPc = "send"
    /\ ~MainLeft /\ Len(outQ) < CHANNEL_BUFF_SIZE
    /\ outQ' = Append(outQ, builderHold)
    /\ builderHold' = None
    /\ builderPc' = "recv"
    /\ UNCHANGED <<runVars, fnVars, mainPc, exit_code, status, schedVars, inQ, midQ,
                   inClosed,
                   midClosed, parserVars, changed, filter, diskVars, dbVars, hist>>

\* out_tx.blocking_send(Some(res)) fails (out_rx dropped): close rx_mid, break
BuilderSendFailed ==
    /\ Alive /\ builderPc = "send"
    /\ MainLeft
    /\ builderHold' = None
    /\ midClosed' = TRUE
    /\ builderPc' = AfterLoop(changed)
    /\ UNCHANGED <<runVars, fnVars, mainPc, exit_code, status, schedVars, inQ, midQ,
                   outQ, inClosed,
                   parserVars, changed, filter, diskVars, dbVars, hist>>

\* File::create(<filter_path>.new): an empty file, or an error
PersistCreate ==
    /\ Alive /\ builderPc = "create"
    /\ hist' = [hist EXCEPT !.persists = @ + 1]
    /\ \/ /\ tmpFile' = [kind |-> "partial"]
          /\ builderPc' = "write"
       \/ /\ tmpFile' = tmpFile
          /\ builderPc' = "sendNone"
    /\ UNCHANGED <<runVars, fnVars, mainPc, exit_code, status, schedVars, inQ, midQ,
                   outQ, inClosed,
                   midClosed, parserVars, builderHold, changed, filter, file, dbVars>>

\* faulty variant of PersistWrite: the filter is written over <filter_path>
PersistWrite_InPlace ==
    /\ Alive /\ builderPc = "write"
    /\ \/ /\ file' = Serialize(filter)
          /\ builderPc' = "rename"
       \/ /\ file' = [kind |-> "partial"]
          /\ builderPc' = "sendNone"
    /\ UNCHANGED <<runVars, fnVars, mainPc, exit_code, status, schedVars, inQ, midQ,
                   outQ, inClosed,
                   midClosed, parserVars, builderHold, changed, filter, tmpFile, dbVars,
                   hist>>

\* ciborium::into_writer(filter, writer): the whole filter, or an error
PersistWrite ==
    /\ Alive /\ builderPc = "write"
    /\ \/ /\ tmpFile' = Serialize(filter)
          /\ builderPc' = "rename"
       \/ /\ tmpFile' = tmpFile
          /\ builderPc' = "sendNone"
    /\ UNCHANGED <<runVars, fnVars, mainPc, exit_code, status, schedVars, inQ, midQ,
                   outQ, inClosed,
                   midClosed, parserVars, builderHold, changed, filter, file, dbVars,
                   hist>>

\* faulty variant of PersistRename: work_build goes back to its loop
PersistRename_Resume ==
    /\ Alive /\ builderPc = "rename"
    /\ \/ /\ file' = tmpFile
          /\ tmpFile' = Absent
          /\ hist' = [hist EXCEPT !.renamed = TRUE, !.fileWrites = @ + 1]
       \/ UNCHANGED <<file, tmpFile, hist>>
    /\ builderPc' = "recv"
    /\ UNCHANGED <<runVars, fnVars, mainPc, exit_code, status, schedVars, inQ, midQ,
                   outQ, inClosed,
                   midClosed, parserVars, builderHold, changed, filter, dbVars>>

\* std::fs::rename(<filter_path>.new, <filter_path>), or an error
PersistRename ==
    /\ Alive /\ builderPc = "rename"
    /\ \/ /\ file' = tmpFile
          /\ tmpFile' = Absent
          /\ hist' = [hist EXCEPT !.renamed = TRUE, !.fileWrites = @ + 1]
       \/ UNCHANGED <<file, tmpFile, hist>>
    /\ builderPc' = "sendNone"
    /\ UNCHANGED <<runVars, fnVars, mainPc, exit_code, status, schedVars, inQ, midQ,
                   outQ, inClosed,
                   midClosed, parserVars, builderHold, changed, filter, dbVars>>

\* the exit of work_build: the terminal sentinel (a failure is ignored), close rx_mid
BuilderSendNone ==
    /\ Alive /\ builderPc = "sendNone"
    /\ \/ /\ ~MainLeft /\ Len(outQ) < CHANNEL_BUFF_SIZE
          /\ outQ' = Append(outQ, None)
          /\ hist' = [hist EXCEPT !.terminal = @ + 1]
       \/ /\ MainLeft
          /\ UNCHANGED <<outQ, hist>>
    /\ builderPc' = "done"
    /\ midClosed' = TRUE
    /\ UNCHANGED <<runVars, fnVars, mainPc, exit_code, status, schedVars, inQ, midQ,
                   inClosed,
                   parserVars, builderHold, changed, filter, diskVars, dbVars>>

(* ----------------------------- specification --------------------------- *)
Scheduler ==
    \E i \in Ids :
        \/ StartSkipped(i) \/ StartFetch(i)
        \/ Respond200(i) \/ Respond304(i) \/ RespondError(i)
        \/ SendHashList(i)

Startup == RangeCheck \/ OpenDb \/ ProbeReadOnly \/ StartPipeline

Main ==
    \/ RecvResult \/ RecvSentinel \/ SendDone \/ SendDoneFailed
    \/ Interrupt \/ IntSend \/ IntSendFailed \/ IntDrainResult \/ IntDrainSentinel
    \/ CloseDb

Parser == ParserRecv \/ ParserRecvEnd \/ ParserSend \/ ParserSendFailed \/ ParserSendNone

Builder ==
    \/ BuilderRecv \/ BuilderRecvEnd \/ BuilderSend \/ BuilderSendFailed
    \/ PersistCreate \/ PersistWrite \/ PersistRename \/ BuilderSendNone

Next == Startup \/ Scheduler \/ Main \/ Parser \/ Builder

Spec == Init /\ [][Next]_vars

(* ------------------------ download_retry on its own -------------------- *)
\* a call of download_retry with max_retries = m, before its loop
RetryCall(m) ==
    [pc |-> "loop", max_retries |-> m, i |-> 0, timeout |-> InitialTimeout,
     res |-> Err(NoStatus),
     seen |-> <<>>,      \* what download_remote_hashlist returned, in order
     sleeps |-> <<>>,    \* the sleeps, in order, in milliseconds
     outcome |-> "pending", counted |-> StatusNew(1)]

InitRetry ==
    /\ InitPipeline
    /\ args = [start |-> 0, end |-> 1]
    /\ file = Absent
    /\ statedb = [i \in Ids |-> NoRecord]
    /\ conv = Idle
    /\ retry \in {RetryCall(m) : m \in 0 .. MaxRetries}

\* one turn of the for loop up to the sleep: download_remote_hashlist answers;
\* Ok and 304 return, another error sleeps unless this was the last turn
RetryAttempt ==
    /\ retry.pc = "loop" /\ retry.i < retry.max_retries
    /\ \E res \in Answers :
          retry' = [retry EXCEPT
                       !.res = res,
                       !.seen = Append(@, res),
                       !.pc = IF StopsRetry(res) THEN "returned"
                              ELSE IF retry.i < retry.max_retries - 1 THEN "sleep"
                              ELSE "loop",
                       !.i = IF ~StopsRetry(res) /\ ~(retry.i < retry.max_retries - 1)
                             THEN @ + 1 ELSE @]
    /\ UNCHANGED <<pipeVars, conv>>

\* sleep(timeout); timeout *= 2; next turn
RetrySleep ==
    /\ retry.pc = "sleep"
    /\ retry' = [retry EXCEPT !.sleeps = Append(@, retry.timeout),
                              !.timeout = Backoff(@),
                              !.i = @ + 1,
                              !.pc = "loop"]
    /\ UNCHANGED <<pipeVars, conv>>

\* the loop is over: download_retry returns res
RetryExhausted ==
    /\ retry.pc = "loop" /\ retry.i >= retry.max_retries
    /\ retry' = [retry EXCEPT !.pc = "returned"]
    /\ UNCHANGED <<pipeVars, conv>>

\* schedule_download maps the result to its outcome and
\* handle_download_status counts it
RetryCounted ==
    /\ retry.pc = "returned"
    /\ LET o == IF retry.res.ok THEN "Downloaded" ELSE map_err(retry.res.err)
       IN retry' = [retry EXCEPT !.pc = "counted",
                                 !.outcome = o,
                                 !.counted = Counted(@, o, 0)]
    /\ UNCHANGED <<pipeVars, conv>>

NextRetry == RetryAttempt \/ RetrySleep \/ RetryExhausted \/ RetryCounted

SpecRetry == InitRetry /\ [][NextRetry]_vars

(* ------------------------- a run over a long range -------------------- *)
\* a first run over the range of FlowArgs: no filter file, an empty state
\* database
InitFlow ==
    /\ args = FlowArgs
    /\ InitRun
    /\ file = Absent
    /\ statedb = [i \in Ids |-> NoRecord]
    /\ retry = Idle /\ conv = Idle

\* the surroundings of such a run at their plainest: the remote answers every
\* request with 200 and the same body of one hash, the wall clock stands still,
\* and no statement of the state database fails
Calm ==
    /\ \A i \in Ids : taskHold[i] # None =>
           (taskHold[i].data = <<2, BadLine>> /\ taskHold[i].etag = NoEtag)
    /\ status.error = 0
    /\ clock = now
    /\ ~hist.dbFault /\ hist.issued = hist.stamped

NextFlow == Next /\ Calm'

SpecFlow == InitFlow /\ [][NextFlow]_vars

\* the three channels are full of data and both worker threads wait in
\* blocking_send: in_rx takes nothing until tx_mid has room, rx_mid takes nothing
\* until out_tx has room, and only main takes from out_rx
PipelineFull ==
    /\ ~inClosed /\ Len(inQ) = CHANNEL_BUFF_SIZE
    /\ parserPc = "send" /\ ~midClosed /\ Len(midQ) = CHANNEL_BUFF_SIZE
    /\ builderPc = "send" /\ ~MainLeft /\ Len(outQ) = CHANNEL_BUFF_SIZE

(* -------------------------- parse_file on its own ---------------------- *)
\* shard ids parse_file is called with, up to MAX_COUNT
Prefixes == {0, 1, 15, 16, 255, 256, 4095, 65536, 703710, MAX_COUNT}

\* the digits after the first one of a suffix
TailChars == {"0", "9", "a", "F"}

\* the suffixes: any hex digit first, then digits of TailChars
Suffixes ==
    {<<c>> \o t : c \in HexChars, t \in [1 .. (SuffixLen - 1) -> TailChars]}

InitParse ==
    /\ InitPipeline
    /\ args = [start |-> 0, end |-> 1]
    /\ file = Absent
    /\ statedb = [i \in Ids |-> NoRecord]
    /\ retry = Idle
    /\ conv \in {[pc |-> "call", prefix |-> q, line |-> x \o <<":", "7">>] :
                    q \in Prefixes, x \in Suffixes}

\* parse_file(prefix, line): the first hash it produces
ConvParse ==
    /\ conv # Idle /\ conv.pc = "call"
    /\ LET l == parse_line(conv.line)
       IN conv' = IF l.ok
                  THEN [pc |-> "done", prefix |-> conv.prefix, line |-> conv.line,
                        hex |-> l.hex, hash |-> hash_of(conv.prefix, l.hex)]
                  ELSE [pc |-> "none", prefix |-> conv.prefix, line |-> conv.line]
    /\ UNCHANGED <<pipeVars, retry>>

NextParse == ConvParse

SpecParse == InitParse /\ [][NextParse]_vars

(* --------------------------- a sequence of runs ------------------------ *)
\* the run ended with exit code 0 without interrupt or saturation, and every
\* shard was built and had its row written
CleanRun ==
    /\ mainPc = "exited" /\ exit_code = 0
    /\ ~hist.interrupted /\ ~hist.saturated
    /\ \A i \in Ids : i \in hist.built /\ i \in hist.stamped

\* after a clean run the builder is started again with the same command line,
\* on what the run before left on disk, after a pause of 0 to MaxGap
Restart ==
    /\ CleanRun /\ run + 1 \in Runs
    /\ run' = run + 1
    /\ \E t \in clock .. (clock + MaxGap) : clock' = t /\ now' = t
    /\ mainPc' = "start"
    /\ exit_code' = 0
    /\ status' = StatusNew(Cardinality(Ids))
    /\ taskSt' = [i \in Ids |-> "new"]
    /\ request' = [i \in Ids |-> "noreq"]
    /\ taskHold' = [i \in Ids |-> None]
    /\ outcome' = [i \in Ids |-> "pending"]
    /\ inQ' = <<>> /\ midQ' = <<>> /\ outQ' = <<>>
    /\ inClosed' = FALSE /\ midClosed' = FALSE
    /\ parserPc' = "recv" /\ parserHold' = None
    /\ builderPc' = "recv" /\ builderHold' = None
    /\ changed' = FALSE
    /\ filter' = Unloaded
    /\ hist' = HistNew(file, statedb,
                       [ran |-> TRUE, clean |-> CleanRun, stamped |-> hist.stamped,
                        stampedAt |-> hist.stampedAt])
    /\ UNCHANGED <<args, file, tmpFile, statedb, fnVars>>

NextRuns == Next \/ Restart

\* the first run of a sequence is on a fresh installation: no filter file, an
\* empty state database
InitRuns ==
    /\ Init
    /\ file = Absent
    /\ statedb = [i \in Ids |-> NoRecord]

SpecRuns == InitRuns /\ [][NextRuns]_vars

(* ------------------------------- claims -------------------------------- *)
\* the filter a later run (or the query server) loads from <filter_path>
FileFilter == open_filter_maybe(file)

\* the run is over: main returned and the process ended
RunEnded == mainPc = "exited"

\* C1 (atomic persist): as long as the rename has not succeeded, whatever
\* failed or interrupted the run, <filter_path> holds its pre-run content; its
\* content is set by the rename step alone, at most once per run, and then to
\* the content of <filter_path>.new.
C1_AtomicPersist ==
    /\ ~hist.renamed => file = hist.preFile
    /\ hist.fileWrites <= 1
    /\ hist.renamed <=> hist.fileWrites = 1
    /\ file # hist.preFile => hist.renamed /\ file = Serialize(filter)

\* C1 witness: a persist that failed after <filter_path>.new was created, in a
\* run that was interrupted; the builder has exited
C1_Witness ==
    /\ builderPc = "done" /\ hist.persists = 1 /\ ~hist.renamed
    /\ tmpFile # Absent /\ hist.interrupted
    /\ filter # open_filter_maybe(hist.preFile)

\* C2 (graceful interrupt), as claimed: when a run in which main observed the
\* interrupt has ended, every shard whose HashList was on the scheduler->parser
\* queue before the interrupt has been inserted into the filter and has had
\* its state update issued, the filter was persisted at most once, main
\* returns 0 (3 is let through here: the state database failing to close is
\* not the pipeline's doing), and no shard has accepted inserts without a state
\* update.  Runs with a saturated filter are left aside, so that what refutes
\* the statement is the interrupt handling alone.
C2_GracefulInterrupt ==
    (RunEnded /\ hist.interrupted /\ ~hist.saturated) =>
        /\ hist.enqAtInt \subseteq hist.built
        /\ hist.enqAtInt \subseteq hist.issued
        /\ hist.touched \subseteq hist.issued
        /\ hist.persists <= 1
        /\ exit_code \in {0, 3}

\* C3, as claimed: once main has observed the interrupt it does not leave its
\* block (and go on to close the state database) before the filter builder has
\* put its terminal sentinel on the output queue.
C3_WaitsForTerminalSentinel ==
    (hist.interrupted /\ MainLeft) => hist.terminal = 1

\* C4, as claimed: a run in which an insert returned Saturated ends with a
\* non-zero exit code.
C4_SaturationIsFatal ==
    (RunEnded /\ hist.saturated) => exit_code # 0

\* C5, as claimed: in a run in which an insert returned Saturated,
\* <filter_path> keeps its pre-run content.
C5_SaturationLeavesFile ==
    hist.saturated => file = hist.preFile

\* C5, amended: after an insert returned Saturated the builder persists exactly
\* when an earlier shard of the run completed with newly added hashes.  If none
\* did, no persist is attempted and <filter_path> keeps its pre-run content;
\* if one did, the file keeps its pre-run content until the rename and then
\* holds the in-memory filter, accepted inserts of the saturating shard
\* included.
C5_SaturationPersistsIfChanged ==
    hist.saturated =>
        /\ changed <=> hist.builtNewly > 0
        /\ ~changed => hist.persists = 0 /\ file = hist.preFile /\ tmpFile = Absent
        /\ changed /\ builderPc \in {"sendNone", "done"} => hist.persists = 1
        /\ file = IF hist.renamed THEN Serialize(filter) ELSE hist.preFile

\* C5 witness: saturation after an earlier shard added hashes, and the rename
\* replaced the file
C5_Witness ==
    /\ hist.saturated /\ changed /\ hist.renamed /\ builderPc = "done"
    /\ file # hist.preFile

\* C6 (no false negatives), as claimed: when the builder has exited, the
\* in-memory filter contains every hash of every ParseResult it received, and
\* when the run has ended as well, the filter loaded from <filter_path>
\* contains them too.
C6_NoFalseNegatives ==
    builderPc = "done" =>
        /\ \A h \in hist.fed : FilterContains(filter, h)
        /\ RunEnded => \A h \in hist.fed : FilterContains(FileFilter, h)

\* C6, amended: the in-memory filter contains, from the end of its insert loop
\* on, every hash of every ParseResult whose inserts all returned Ok (the
\* shards a FilterResult is made for), and every single hash an insert
\* accepted; once the builder has exited, the filter loaded from <filter_path>
\* contains the hashes of those shards provided the rename succeeded or no
\* completed shard added a new hash (nothing had to be persisted).
C6_NoFalseNegativesOfBuiltShards ==
    /\ \A h \in hist.builtHashes \cup hist.inserted : FilterContains(filter, h)
    /\ (builderPc = "done" /\ (hist.renamed \/ ~changed)) =>
           \A h \in hist.builtHashes : FilterContains(FileFilter, h)

\* C6 witness: the builder exited after a successful persist of a run that
\* added hashes, and a reload of the file differs from the pre-run filter
C6_Witness ==
    /\ builderPc = "done" /\ hist.renamed /\ RunEnded
    /\ Cardinality(hist.builtHashes) >= 2
    /\ FileFilter # open_filter_maybe(hist.preFile)

\* C7 (dirty-only write): while no insert has returned Ok(true), nothing is
\* created at <filter_path>.new and <filter_path> is not replaced; and a
\* persist is attempted only after a shard completed with added > 0.
C7_DirtyOnlyWrite ==
    /\ hist.newly = 0 =>
          /\ hist.persists = 0 /\ tmpFile = Absent
          /\ file = hist.preFile /\ ~hist.renamed
    /\ (hist.persists > 0 \/ builderPc \in {"create", "write", "rename"}) =>
          hist.builtNewly > 0

\* C7 witness: the builder exited having received hashes none of which was
\* newly added
C7_Witness ==
    /\ builderPc = "done" /\ hist.fed # {} /\ hist.newly = 0 /\ ~hist.saturated
    /\ hist.persists = 0

\* C8 (conditional refresh): for every shard whose future has read the state
\* database: with a record of last_update T >= now - max_age no request is
\* issued and the outcome is Skipped; with T < now - max_age the request is
\* issued carrying the record's etag as validator; with no record the request
\* is issued without a validator.
C8_ConditionalRefresh ==
    \A i \in Ids :
        taskSt[i] # "new" =>
            LET row == hist.preDb[i]
            IN IF row = NoRecord
               THEN request[i] = NoEtag
               ELSE IF row.last_update >= StartTime - MaxAgeDuration
                    THEN request[i] = "noreq" /\ outcome[i] = "Skipped"
                    ELSE request[i] = row.etag

\* C8 witness: one shard skipped as fresh, the other requested with the
\* validator of its outdated record
C8_Witness ==
    \E i, j \in Ids :
        /\ outcome[i] = "Skipped" /\ hist.preDb[i].last_update = max_age
        /\ request[j] = "e0" /\ hist.preDb[j].last_update < max_age

NotBuilt == {"Skipped", "NotOutdated", "HTTPError"}

\* C9 (only successful builds are recorded): a shard whose outcome is Skipped,
\* NotOutdated or HTTPError is never enqueued, has no hash fed to or inserted
\* into the filter, has no state update issued and keeps its row; and handling
\* such an outcome leaves main in its loop with its exit code unchanged while
\* ids remain (with none left it goes on to send the close sentinel).
C9_OnlySuccessfulBuildsRecorded ==
    /\ [](\A i \in Ids :
            outcome[i] \in NotBuilt =>
                /\ i \notin hist.enqueued /\ i \notin hist.fedIds
                /\ i \notin hist.touched /\ i \notin hist.issued
                /\ statedb[i] = hist.preDb[i])
    /\ [][\A i \in Ids :
            (outcome[i] = "pending" /\ outcome'[i] \in NotBuilt) =>
                /\ exit_code' = exit_code
                /\ mainPc' = IF status'.processed < status'.total
                             THEN "select" ELSE "sendDone"]_vars

\* C9 witness: a shard answered 304 and one that failed stay unrecorded while
\* the run went on to its end
C9_Witness ==
    /\ RunEnded /\ ~hist.interrupted
    /\ \E i, j \in Ids : outcome[i] = "NotOutdated" /\ outcome[j] = "HTTPError"

\* C10, as claimed: a shard whose downloaded body starts with a line the parser
\* rejects yields no ParseResult, hence no FilterResult and no state update.
C10_UnparseableBodySkipped ==
    \A i \in hist.unparseable :
        /\ i \notin hist.fedIds
        /\ i \notin hist.built
        /\ i \notin hist.issued

\* C11 (strict chain): for every shard, in every reachable state: the download
\* returned 200, parse_file ran, the insert loop ran and state_db.update was
\* called at most once each; an update was issued only if the insert loop of
\* the shard had finished with every hash of its ParseResult in the filter; the
\* insert loop ran only if the body had been parsed; and the body was parsed
\* only if the download had returned 200.  (The history only grows, so a step
\* recorded while an earlier one is not would be a step out of order.)
C11_StrictChain ==
    \A i \in Ids :
        /\ hist.got200[i] <= 1 /\ hist.parses[i] <= 1
        /\ hist.insertRuns[i] <= 1 /\ hist.updates[i] <= 1
        /\ hist.updates[i] > 0 =>
               /\ i \in hist.built
               /\ \A h \in hist.builtHashes : h[1] = i => FilterContains(filter, h)
        /\ i \in hist.built => hist.insertRuns[i] > 0
        /\ hist.insertRuns[i] > 0 => hist.parses[i] > 0
        /\ hist.parses[i] > 0 => hist.got200[i] > 0 /\ i \in hist.enqueued

\* C11 witness: both shards went through the whole chain, one of them while
\* the other was still between download and insert
C11_Witness ==
    /\ \A i \in Ids : hist.updates[i] = 1 /\ i \in hist.stamped
    /\ \E i \in Ids : Cardinality({h \in hist.builtHashes : h[1] = i}) = 2
    /\ RunEnded

\* the downloaded bodies in memory and not yet parsed: on the scheduler->parser
\* queue, in a fetch future waiting to enqueue, and in work_parse, whose `list`
\* lives until its ParseResult is sent
QueuedBodies == Cardinality({k \in 1 .. Len(inQ) : inQ[k] # None})

WaitingBodies == Cardinality({i \in Ids : taskSt[i] = "sending"})

ParserBodies == IF parserPc = "send" THEN 1 ELSE 0

BodiesHeld == QueuedBodies + WaitingBodies + ParserBodies

\* C12 (backpressure), as claimed: the downloaded bodies held and not yet
\* parsed never number more than the queue capacity Q.
C12_BodiesWithinQueueCapacity ==
    BodiesHeld <= CHANNEL_BUFF_SIZE

\* C12, amended: at most Q bodies are queued, at most `parallel` more are held
\* by fetch futures waiting to enqueue, and one more by the parser: never more
\* than Q + parallel + 1 in all.
C12_BodiesWithinQueueAndFetchers ==
    /\ QueuedBodies <= CHANNEL_BUFF_SIZE
    /\ Len(inQ) <= CHANNEL_BUFF_SIZE
    /\ WaitingBodies <= Parallel
    /\ Cardinality(InFlight) <= Parallel
    /\ BodiesHeld <= CHANNEL_BUFF_SIZE + Parallel + 1

\* C12 witness: the queue is full and a fetch future waits with one body more
C12_Witness ==
    /\ QueuedBodies = CHANNEL_BUFF_SIZE /\ WaitingBodies >= 1
    /\ BodiesHeld > CHANNEL_BUFF_SIZE

\* the second run starts within max_age of every row the first run wrote
WithinMaxAge ==
    \A i \in Ids :
        hist.preDb[i] # NoRecord /\ hist.preDb[i].last_update >= now - MaxAgeDuration

RECURSIVE Pow2(_)
Pow2(n) == IF n = 0 THEN 1 ELSE 2 * Pow2(n - 1)

\* download_retry has returned
Returned == retry.pc \in {"returned", "counted"}

\* C14 (retry schedule): download_retry calls the single download at most
\* max_retries times; an attempt that succeeds is the last one and its result
\* is what is returned; the sleep after attempt k is 500 ms * 2^(k-1); there
\* is a sleep between any two attempts and none after the last; and after
\* max_retries failed attempts other than 304 the error of the last attempt
\* is returned (with max_retries = 0 there is no attempt and the error
\* returned carries no status).
C14_RetrySchedule ==
    retry # Idle =>
        LET n == Len(retry.seen)
        IN /\ n <= retry.max_retries
           /\ \A k \in 1 .. n : retry.seen[k].ok => k = n /\ Returned /\ retry.res = retry.seen[k]
           /\ \A k \in 1 .. Len(retry.sleeps) : retry.sleeps[k] = 500 * Pow2(k - 1)
           /\ Len(retry.sleeps) = IF n = 0 THEN 0
                                  ELSE IF retry.pc = "loop" /\ retry.i < retry.max_retries
                                       THEN n ELSE n - 1
           /\ retry.pc = "loop" /\ retry.i < retry.max_retries => retry.i = n
           /\ Returned =>
                  /\ retry.res = IF n = 0 THEN Err(NoStatus) ELSE retry.seen[n]
                  /\ ~StopsRetry(retry.res) => n = retry.max_retries

\* C14 witness: max_retries attempts failed, with a sleep between them, and the
\* last error was returned
C14_Witness ==
    /\ retry # Idle /\ Returned
    /\ retry.max_retries = MaxRetries /\ Len(retry.seen) = MaxRetries
    /\ Len(retry.sleeps) = MaxRetries - 1
    /\ retry.res = Err(Some(500)) /\ retry.seen[1] = Err(NoStatus)

\* C15 (a 304 is never retried): an attempt answered 304 is the last one;
\* download_retry returns its error at once, without the sleep an error is
\* followed by; the scheduler's outcome is NotOutdated, counted as skipped and
\* not as an error.
C15_NotModifiedNotRetried ==
    retry # Idle =>
        \A k \in 1 .. Len(retry.seen) :
            retry.seen[k] = Err(Some(304)) =>
                /\ k = Len(retry.seen) /\ Returned
                /\ retry.res = Err(Some(304))
                /\ Len(retry.sleeps) = k - 1
                /\ retry.pc = "counted" =>
                       /\ retry.outcome = "NotOutdated"
                       /\ retry.counted.skipped = 1 /\ retry.counted.error = 0
                       /\ retry.counted.processed = 1

\* C15 witness: the remote answered 304 on a second attempt and the outcome
\* was counted
C15_Witness ==
    /\ retry # Idle /\ retry.pc = "counted"
    /\ Len(retry.seen) = 2 /\ retry.seen[2] = Err(Some(304))
    /\ retry.max_retries > 2

\* the shards built and recorded in the first run and again in the second
TwiceStamped == {i \in Ids : run = 2 /\ i \in hist.prev.stamped /\ i \in hist.stamped}

\* C16 (idempotent upsert), as claimed: after two successful updates of the
\* same shard id the table holds one row for the id, with the etag of the
\* second update and a last_update strictly greater than after the first.
C16_UpsertStrictlyAdvances ==
    \A i \in TwiceStamped :
        /\ statedb[i] # NoRecord
        /\ statedb[i].etag = hist.stampEtag[i]
        /\ statedb[i].last_update > hist.preDb[i].last_update

\* C16, amended: after two successful updates of the same shard id the table
\* holds one row for the id, with the etag of the second update and the
\* second of the wall clock at the second update as last_update; that is
\* never less than after the first update, and strictly greater whenever the
\* second update comes a full second or more after the first.
C16_UpsertAdvancesBySeconds ==
    \A i \in TwiceStamped :
        /\ statedb[i] # NoRecord
        /\ statedb[i].etag = hist.stampEtag[i]
        /\ statedb[i].last_update = Stamp(hist.stampedAt[i])
        /\ statedb[i].last_update >= hist.preDb[i].last_update
        /\ hist.stampedAt[i] >= hist.prev.stampedAt[i] + TicksPerSecond =>
               statedb[i].last_update > hist.preDb[i].last_update

\* C16 witness: a shard recorded in both runs, a second or more apart, with a
\* new etag
C16_Witness ==
    \E i \in TwiceStamped :
        /\ hist.stampedAt[i] >= hist.prev.stampedAt[i] + TicksPerSecond
        /\ statedb[i].etag # hist.preDb[i].etag
        /\ statedb[i].last_update > hist.preDb[i].last_update

\* the five hex digits of a shard id, most significant first, as values
Hex5(q) == [k \in 1 .. 5 |-> (q \div (16 ^ (5 - k))) % 16]

\* the bytes a sequence of digit values spells, two digits a byte
BytesOfDigits(d) == [j \in 1 .. (Len(d) \div 2) |-> 16 * d[2 * j - 1] + d[2 * j]]

\* C17 (hash reconstruction): the hash parse_file produces for shard id P and
\* suffix S is the bytes spelled by the hex digits hex5(P) || S, two digits a
\* byte, most significant first; the byte at offset 2 has the low nibble of P
\* as its high nibble and the first digit of S as its low nibble.
C17_HashReconstruction ==
    (conv # Idle /\ conv.pc # "call") =>
        /\ conv.pc = "done"
        /\ conv.hex = SubSeq(conv.line, 1, SuffixLen)
        /\ conv.hash =
              BytesOfDigits(Hex5(conv.prefix) \o [k \in 1 .. SuffixLen |-> HexVal[conv.hex[k]]])
        /\ Len(conv.hash) = (5 + SuffixLen) \div 2
        /\ conv.hash[3] \div 16 = conv.prefix % 16
        /\ conv.hash[3] % 16 = HexVal[conv.hex[1]]

\* C17 witness: shard 0xABCDE and a suffix starting with F give 0xEF at offset 2
C17_Witness ==
    /\ conv # Idle /\ conv.pc = "done"
    /\ conv.prefix = 703710 /\ conv.hex[1] = "F"
    /\ conv.hash[1] = 171 /\ conv.hash[2] = 205 /\ conv.hash[3] = 239

\* C18 (close on every exit): whenever the run has ended and the state
\* database had been opened, state_db.close() was called, also on the exit
\* taken for a read-only database and after a fatal coordinator error.
C18_CloseOnEveryExit ==
    (RunEnded /\ hist.opened) => hist.closed

\* C19 (invalid range): with start > end or end > 0xFFFFF main leaves with
\* exit code 255 in its first step: the state database is never opened, the
\* filter never loaded or created, no worker runs, no request is issued, and
\* the filter file, the .new file and the state database stay as they were.
C19_InvalidRange ==
    (args.start > args.end \/ args.end > MAX_COUNT) =>
        /\ mainPc \in {"start", "exited"}
        /\ RunEnded => exit_code = 255
        /\ ~hist.opened /\ ~hist.closed
        /\ filter = Unloaded
        /\ parserPc = "recv" /\ builderPc = "recv"
        /\ <<inQ, midQ, outQ>> = <<<<>>, <<>>, <<>>>>
        /\ \A i \in Ids : request[i] = "noreq" /\ taskSt[i] = "new"
        /\ file = hist.preFile /\ tmpFile = Absent /\ statedb = hist.preDb
        /\ hist = HistNew(hist.preFile, hist.preDb, hist.prev)

\* C19 witness: a run with end > 0xFFFFF has ended
C19_Witness ==
    /\ RunEnded /\ args.end > MAX_COUNT /\ args.start <= args.end
    /\ exit_code = 255

\* work_build has left its loop: it persists, or is past persisting
PastLoop == builderPc \in {"create", "write", "rename", "sendNone", "done"}

\* C20 (no persist mid-stream): a run has at most one persist attempt; once
\* work_build has left its receive loop it never returns to it and the filter
\* gets no further insert; the terminal sentinel is on its way to main only
\* when the persist attempt is over, and from then on <filter_path> does not
\* change (after a successful rename it holds the final filter).
C20_PersistOnlyAtEnd ==
    /\ [](hist.persists <= 1)
    /\ [](hist.persists > 0 => PastLoop)
    /\ [][PastLoop => (PastLoop' /\ filter' = filter
                         /\ hist'.insertRuns = hist.insertRuns
                         /\ hist'.inserted = hist.inserted)]_vars
    /\ [](hist.terminal > 0 => builderPc = "done")
    /\ [](hist.terminal > 0 /\ hist.renamed => file = Serialize(filter))
    /\ [][hist.terminal > 0 => file' = file /\ hist'.persists = hist.persists]_vars

\* C20 witness: main has taken the terminal sentinel of a run that inserted
\* hashes and persisted the filter once
C20_Witness ==
    /\ hist.terminal = 1 /\ outQ = <<>> /\ hist.persists = 1 /\ hist.renamed
    /\ hist.inserted # {} /\ file = Serialize(filter)

\* C21 (normal-run termination): in a run without interrupt and without
\* saturation main is never waiting to send the close sentinel into a full
\* in_tx while the parser waits on a full tx_mid and the builder on a full
\* out_tx (a state nothing leaves, so main would never exit).
C21_CloseSendNeverStuck ==
    (~hist.interrupted /\ ~hist.saturated) => ~(mainPc = "sendDone" /\ PipelineFull)

\* C22 (interrupt termination): after ctrl+c main is never waiting to send the
\* close sentinel into a full in_tx while the parser waits on a full tx_mid and
\* the builder on a full out_tx, which main does not drain during that send.
C22_InterruptSendNeverStuck ==
    hist.interrupted => ~(mainPc = "intSend" /\ PipelineFull)

\* C23 (state database and filter file agree): when the process has ended,
\* every hash of every shard state_db.update was called for during the run is
\* contained in the filter stored at <filter_path>.
C23_StoreMatchesFile ==
    RunEnded =>
        \A h \in hist.builtHashes :
            h[1] \in hist.issued => FilterContains(FileFilter, h)

\* the sentinel, if there is one, is the last message of the channel
SentinelLast(q) == \A k \in 1 .. Len(q) : q[k] = None => k = Len(q)

\* C24 (one terminal sentinel, as the claim has it): when work_build has
\* exited, exactly one terminal sentinel was put on out_tx, and when work_parse
\* has exited after receiving a sentinel, it put exactly one on tx_mid.
C24_ExactlyOneSentinel ==
    /\ builderPc = "done" => hist.terminal = 1
    /\ (parserPc = "done" /\ hist.sentinelSeen) => hist.forwarded = 1

\* C24 (one terminal sentinel, amended): each worker puts at most one sentinel
\* on its output channel, as its last message and its last step; it puts
\* exactly one unless the receiving end of that channel is closed by then
\* (out_rx dropped by main, rx_mid closed by the builder), and then none.
C24_OneSentinelWhileOpen ==
    /\ hist.terminal <= 1 /\ hist.forwarded <= 1
    /\ SentinelLast(outQ) /\ SentinelLast(midQ)
    /\ hist.terminal = 1 => builderPc = "done"
    /\ hist.forwarded = 1 => parserPc = "done"
    /\ (builderPc = "done" /\ hist.terminal = 0) => MainLeft
    /\ (parserPc = "done" /\ hist.forwarded = 0) => midClosed

\* C24 witness: the builder exited with out_rx dropped, so no terminal
\* sentinel; the parser had forwarded its one sentinel
C24_Witness ==
    /\ builderPc = "done" /\ hist.terminal = 0 /\ MainLeft
    /\ parserPc = "done" /\ hist.sentinelSeen /\ hist.forwarded = 1

\* C25 (counters): processed = skipped + downloaded + error, processed <= total
\* and hashes_new <= hashes in every state; and in a run without interrupt the
\* close sentinel is sent into in_tx at most once, only with processed = total
\* and every HashList of the run enqueued, main never returns to its select!
\* with processed = total without having sent it, and a run that ends through
\* state_db.close() without saturation has sent it exactly once.
C25_CounterInvariant ==
    /\ status.processed = status.skipped + status.downloaded + status.error
    /\ status.processed <= status.total
    /\ status.hashes_new <= status.hashes
    /\ ~hist.interrupted =>
          /\ hist.sentinels <= 1
          /\ hist.sentinels = 1 =>
                /\ status.processed = status.total
                /\ \A i \in Ids : /\ taskSt[i] = "done"
                                  /\ outcome[i] = "Downloaded" <=> i \in hist.enqueued
          /\ mainPc = "select" => (status.processed = status.total <=> hist.sentinels = 1)
          /\ mainPc = "sendDone" => (status.processed = status.total /\ hist.sentinels = 0)
          /\ (RunEnded /\ hist.closed /\ exit_code \in {0, 3} /\ ~hist.saturated) =>
                hist.sentinels = 1

\* C25 witness: an uninterrupted run has ended after one download and one
\* error, with hashes counted and the close sentinel sent
C25_Witness ==
    /\ RunEnded /\ ~hist.interrupted /\ hist.sentinels = 1
    /\ status.downloaded = 1 /\ status.error = 1 /\ status.processed = status.total
    /\ status.hashes > 0

====
